---- MODULE Spec2Model ----
(***************************************************************************)
(* LoopingAudioSource (dRowAudio_LoopingAudioSource.cpp): a decorator that *)
(* confines the playback of an inner PositionableAudioSource to a loop     *)
(* region.  The inner source is a ramp: the sample it delivers for         *)
(* position p has the value p, its read cursor advances by the number of   *)
(* samples read, and a read of no or a negative number of samples does     *)
(* nothing.                                                                *)
(*                                                                         *)
(* Times are counted in half seconds (time k stands for k / 2 s) and       *)
(* sample rates in samples per second; the double -> int64 conversion of   *)
(* time * sampleRate truncates.                                            *)
(*                                                                         *)
(* tempBuffer is scratch memory: what a call left in it is indeterminate   *)
(* for the next call, as is what setSize allocated, so a call that copies  *)
(* out samples it did not write itself delivers an arbitrary value for     *)
(* them.                                                                   *)
(* In Spec each operation is one atomic action; lastCall, pre, innerCalls  *)
(* and out record what the last operation was given, found, called and     *)
(* delivered.  In ThreadsSpec two threads run the same functions line by   *)
(* line, with loopPosLock between them.                                    *)
(***************************************************************************)
EXTENDS Integers, Sequences, FiniteSets, TLC

\* ------------------------------------------------------------------ bounds
MaxTime == 2
MaxPos == 6
MaxBlock == 3

\* ------------------------------------------------------- program constants
\* tempBuffer (2, 512)
InitialTempSamples == 512

\* ------------------------------------------------------------ input domains
Times == 0..MaxTime
Rates == {1, 4}
Positions == 0..MaxPos
\* A block of more samples than tempBuffer ever holds: more than its initial
\* size and than every samplesPerBlockExpected given to prepareToPlay.
OversizedBlock == InitialTempSamples + 2
NumSamplesSet == ((0 - 1)..MaxBlock) \cup {OversizedBlock}
\* info.startSample: the caller's offset into its own buffer.
Offsets == {0, 1}
ExpectedSizes == {InitialTempSamples - 1, InitialTempSamples + 1}

\* loopStartTime and loopEndTime before setLoopTimes wrote them: the
\* constructor leaves them uninitialised and nothing ever reads them.
Indeterminate == 0 - 1
\* What currentSampleRate, which the constructor leaves uninitialised too,
\* may hold before prepareToPlay wrote it.
IndeterminateRates == {0} \cup Rates
\* What a read of scratch memory that was never written may yield.
Garbage == {0 - 1, 0 - 2}
\* What an integer remainder by zero may yield when it does not trap.
RemainderGarbage == {0, 1}

VARIABLES
    isLoopingBetweenTimes,  \* bool member
    loopStartTime,          \* double member (half seconds)
    loopEndTime,            \* double member (half seconds)
    currentSampleRate,      \* double member
    loopStartSample,        \* int64 member
    loopEndSample,          \* int64 member
    tempBufferSize,         \* tempBuffer.getNumSamples()
    readPosition,           \* input->getNextReadPosition()
    crashed,                \* the process trapped (undefined behaviour)
    prepared,               \* prepareToPlay has been called
    lockTaken,              \* the last operation entered loopPosLock
    loopPosLock,            \* CriticalSection member: the thread inside it
    thread,                 \* per thread: the call in progress and its locals
    lastCall,               \* the last operation called and its arguments
    pre,                    \* what it found: the inner cursor
    innerCalls,             \* the calls it made on the inner source
    out                     \* the samples it delivered to the caller

prog == <<isLoopingBetweenTimes, loopStartTime, loopEndTime, currentSampleRate,
          loopStartSample, loopEndSample, tempBufferSize, readPosition,
          crashed, prepared>>
vars == <<isLoopingBetweenTimes, loopStartTime, loopEndTime, currentSampleRate,
          loopStartSample, loopEndSample, tempBufferSize, readPosition,
          crashed, prepared, lockTaken, loopPosLock, thread, lastCall, pre,
          innerCalls, out>>

\* ------------------------------------------------------------- arithmetic
\* C++ integer division and remainder truncate towards zero (b # 0).
CDiv(a, b) ==
    IF (a >= 0 /\ b > 0) \/ (a <= 0 /\ b < 0)
    THEN (IF a >= 0 THEN a ELSE 0 - a) \div (IF b >= 0 THEN b ELSE 0 - b)
    ELSE 0 - ((IF a >= 0 THEN a ELSE 0 - a) \div (IF b >= 0 THEN b ELSE 0 - b))

CRem(a, b) == a - b * CDiv(a, b)

\* The results `a % b` can have: b = 0 is undefined behaviour.
RemResults(a, b) == IF b = 0 THEN RemainderGarbage ELSE {CRem(a, b)}

\* int64 sample = time * rate, the double product truncated.
TimeToSample(time, rate) == CDiv(time * rate, 2)

\* ----------------------------------------------------------- inner source
\* The values a ramp source delivers for n samples from position p.
Ramp(p, n) == [i \in 1..n |-> p + i - 1]

\* The inner cursor after input->getNextAudioBlock of n samples.
InnerAdvance(p, n) == IF n > 0 THEN p + n ELSE p

\* tempBuffer after the inner source wrote n ramp samples from position p
\* at offset: samples that fall outside the buffer do not land in it.
WriteRamp(buffer, size, offset, p, n) ==
    [i \in (DOMAIN buffer) \cup
           {o \in offset..(offset + n - 1) : o >= 0 /\ o < size} |->
        IF i >= offset /\ i < offset + n THEN p + (i - offset) ELSE buffer[i]]

\* The write of n samples at offset leaves the buffer.
Overrun(size, offset, n) == n > 0 /\ (offset < 0 \/ offset + n > size)

ReadCall(buffer, start, n) ==
    [op |-> "getNextAudioBlock", buffer |-> buffer, startSample |-> start,
     numSamples |-> n]
SeekCall(p) == [op |-> "setNextReadPosition", position |-> p]
PrepareCall(n, rate) ==
    [op |-> "prepareToPlay", samplesPerBlockExpected |-> n, sampleRate |-> rate]

Snapshot == [readPosition |-> readPosition]

\* ----------------------------------------------------------------- threads
\* The control thread and the real-time audio thread.
Threads == {"control", "audio"}

\* A thread that is in no call: pc is the source line it stands at.
Idle ==
    [pc |-> "idle", op |-> "none", startTime |-> 0, endTime |-> 0,
     newPosition |-> 0, numSamples |-> 0, newStart |-> 0, newEnd |-> 0,
     start |-> 0, end |-> 0, numEndSamps |-> 0, numStartSamps |-> 0]

\* ------------------------------------------------------------ construction
Init ==
    /\ isLoopingBetweenTimes = FALSE
    /\ loopStartTime = Indeterminate
    /\ loopEndTime = Indeterminate
    /\ currentSampleRate \in IndeterminateRates
    /\ prepared = FALSE
    /\ lockTaken = FALSE
    /\ loopPosLock = "none"
    /\ thread = [t \in Threads |-> Idle]
    /\ loopStartSample = 0
    /\ loopEndSample = 0
    /\ tempBufferSize = InitialTempSamples
    /\ readPosition = 0
    /\ crashed = FALSE
    /\ lastCall = [op |-> "LoopingAudioSource"]
    /\ pre = [readPosition |-> 0]
    /\ innerCalls = <<>>
    /\ out = <<>>

\* ----------------------------------------------------- setNextReadPosition
\* newPosition wrapped by the two branches of setNextReadPosition.
WrapPosition(newPosition, start, end) ==
    LET numLoopSamples == end - start
    IN  IF newPosition > end
        THEN start + CRem(newPosition - end, numLoopSamples)
        ELSE IF newPosition < start
             THEN end - CRem(start - newPosition, numLoopSamples)
             ELSE newPosition

\* Mutant of ForwardedPosition: the cursor at loopStartSample counts as
\* inside the region.
ForwardedPositionFromStart(newPosition, looping, cursor, start, end) ==
    IF looping /\ cursor >= start /\ cursor < end
    THEN WrapPosition(newPosition, start, end)
    ELSE newPosition

\* The position setNextReadPosition forwards to the inner source: wrapped
\* only if looping is on and the cursor is strictly inside the region.
ForwardedPosition(newPosition, looping, cursor, start, end) ==
    IF looping /\ cursor > start /\ cursor < end
    THEN WrapPosition(newPosition, start, end)
    ELSE newPosition

SetNextReadPosition(newPosition) ==
    /\ ~crashed
    /\ lastCall' = [op |-> "setNextReadPosition", newPosition |-> newPosition]
    /\ pre' = Snapshot
    /\ lockTaken' = TRUE
    /\ LET p == ForwardedPosition(newPosition, isLoopingBetweenTimes,
                                  readPosition, loopStartSample, loopEndSample)
       IN  /\ readPosition' = p
           /\ innerCalls' = <<SeekCall(p)>>
    /\ out' = <<>>
    /\ UNCHANGED <<isLoopingBetweenTimes, loopStartTime, loopEndTime,
                   currentSampleRate, loopStartSample, loopEndSample,
                   tempBufferSize, crashed, prepared, loopPosLock, thread>>

\* ------------------------------------------------------------ setLoopTimes
\* Mutant of RevalidatedPosition: the sample after the cursor.
RevalidatedPositionNextSample(cursor) == cursor + 1

\* The position setLoopTimes hands to setNextReadPosition:
\* getNextReadPosition().
RevalidatedPosition(cursor) == cursor

\* The call repeats the call just before it, with the same times.
SameTimesAgain(startTime, endTime) ==
    /\ lastCall.op = "setLoopTimes"
    /\ lastCall.startTime = startTime
    /\ lastCall.endTime = endTime

SetLoopTimes(startTime, endTime) ==
    /\ ~crashed
    /\ lastCall' = [op |-> "setLoopTimes", startTime |-> startTime,
                    endTime |-> endTime,
                    again |-> SameTimesAgain(startTime, endTime)]
    /\ pre' = Snapshot
    /\ lockTaken' = TRUE
    /\ loopStartTime' = startTime
    /\ loopEndTime' = endTime
    /\ loopStartSample' = TimeToSample(startTime, currentSampleRate)
    /\ loopEndSample' = TimeToSample(endTime, currentSampleRate)
    /\ LET p == ForwardedPosition(RevalidatedPosition(readPosition),
                                  isLoopingBetweenTimes, readPosition,
                                  loopStartSample', loopEndSample')
       IN  /\ readPosition' = p
           /\ innerCalls' = <<SeekCall(p)>>
    /\ out' = <<>>
    /\ UNCHANGED <<isLoopingBetweenTimes, currentSampleRate, tempBufferSize,
                   crashed, prepared, loopPosLock, thread>>

\* ----------------------------------------------------- setLoopBetweenTimes
SetLoopBetweenTimes(shouldLoop) ==
    /\ ~crashed
    /\ lastCall' = [op |-> "setLoopBetweenTimes", shouldLoop |-> shouldLoop]
    /\ pre' = Snapshot
    /\ lockTaken' = FALSE
    /\ isLoopingBetweenTimes' = shouldLoop
    /\ innerCalls' = <<>>
    /\ out' = <<>>
    /\ UNCHANGED <<loopStartTime, loopEndTime, currentSampleRate,
                   loopStartSample, loopEndSample, tempBufferSize,
                   readPosition, crashed, prepared, loopPosLock, thread>>

\* ----------------------------------------------------------- prepareToPlay
\* Mutant of GrownSize: tempBuffer is always resized to the expected size.
GrownSizeToExpected(size, samplesPerBlockExpected) == samplesPerBlockExpected

\* tempBuffer.getNumSamples() after prepareToPlay: setSize only if the
\* buffer is smaller than samplesPerBlockExpected.
GrownSize(size, samplesPerBlockExpected) ==
    IF size < samplesPerBlockExpected THEN samplesPerBlockExpected ELSE size

PrepareToPlay(samplesPerBlockExpected, sampleRate) ==
    /\ ~crashed
    /\ lastCall' = [op |-> "prepareToPlay",
                    samplesPerBlockExpected |-> samplesPerBlockExpected,
                    sampleRate |-> sampleRate]
    /\ pre' = Snapshot
    /\ lockTaken' = FALSE
    /\ currentSampleRate' = sampleRate
    /\ prepared' = TRUE
    /\ innerCalls' = <<PrepareCall(samplesPerBlockExpected, sampleRate)>>
    /\ tempBufferSize' = GrownSize(tempBufferSize, samplesPerBlockExpected)
    /\ out' = <<>>
    /\ UNCHANGED <<isLoopingBetweenTimes, loopStartTime, loopEndTime,
                   loopStartSample, loopEndSample, readPosition, crashed,
                   loopPosLock, thread>>

\* ------------------------------------------------------- getNextAudioBlock
\* info.numSamples <= 0: nothing is done.
NoBlock ==
    /\ lockTaken' = FALSE
    /\ innerCalls' = <<>>
    /\ out' = <<>>
    /\ UNCHANGED <<readPosition, crashed>>

\* input->getNextAudioBlock (info): one read into the caller's buffer.
ForwardBlock(start, n) ==
    /\ innerCalls' = <<ReadCall("info", start, n)>>
    /\ out' = Ramp(readPosition, n)
    /\ readPosition' = InnerAdvance(readPosition, n)
    /\ UNCHANGED crashed

\* The process traps: nothing more is delivered.
Trap ==
    /\ crashed' = TRUE
    /\ innerCalls' = <<>>
    /\ out' = <<>>
    /\ UNCHANGED readPosition

\* Mutant of BlockPath: info.numSamples is not consulted.
BlockPathAnyCount(n, looping) == IF looping THEN "loop" ELSE "direct"

\* Mutant of BlockPath: isLoopingBetweenTimes is not consulted.
BlockPathAlwaysLooping(n, looping) == IF n > 0 THEN "loop" ELSE "none"

\* The branch getNextAudioBlock takes for info.numSamples and the flag.
BlockPath(n, looping) ==
    IF n > 0 THEN (IF looping THEN "loop" ELSE "direct") ELSE "none"

\* Mutant of IsForwarded: every block is split at the loop end.
IsForwardedNever(newStart, newEnd) == FALSE

\* Mutant of IsForwarded: newEnd >= newStart.
IsForwardedOrEqual(newStart, newEnd) == newEnd >= newStart

\* newEnd > newStart: the block is taken not to cross the loop end.
IsForwarded(newStart, newEnd) == newEnd > newStart

\* numEndSamps, the size of the first read of the else branch.
NumEndSamps(newStart, end) == end - newStart

\* Mutant of NumStartSamps: loopStartSample is not subtracted.
NumStartSampsFromZero(newEnd, start) == newEnd

\* numStartSamps, the size of the second read of the else branch.
NumStartSamps(newEnd, start) == newEnd - start

\* The else branch: two reads into tempBuffer, then the copy of the first
\* info.numSamples samples of tempBuffer to the caller.  A write or a read
\* outside tempBuffer is undefined behaviour: the process may trap.
SplitBlock(start, n, newStart, newEnd) ==
    LET numEndSamps == NumEndSamps(newStart, loopEndSample)
        numStartSamps == NumStartSamps(newEnd, loopStartSample)
        t1 == WriteRamp(<<>>, tempBufferSize, 0, newStart, numEndSamps)
        t2 == WriteRamp(t1, tempBufferSize, numEndSamps, loopStartSample,
                        numStartSamps)
        overrun == \/ Overrun(tempBufferSize, 0, numEndSamps)
                   \/ Overrun(tempBufferSize, numEndSamps, numStartSamps)
                   \/ n > tempBufferSize
    IN  \E trap \in BOOLEAN :
          /\ trap => overrun
          /\ IF trap
             THEN Trap
             ELSE /\ innerCalls' = <<ReadCall("temp", 0, numEndSamps),
                                     SeekCall(loopStartSample),
                                     ReadCall("temp", numEndSamps,
                                              numStartSamps)>>
                  /\ readPosition' = InnerAdvance(loopStartSample,
                                                  numStartSamps)
                  /\ \E g \in Garbage, temp \in {t2} :
                        out' = [i \in 1..n |->
                                   IF (i - 1) \in DOMAIN temp THEN temp[i - 1] ELSE g]
                  /\ UNCHANGED crashed

\* The looping branch of getNextAudioBlock.
LoopedBlock(start, n) ==
    /\ lockTaken' = TRUE
    /\ \E r \in RemResults(readPosition + n, loopEndSample), trap \in BOOLEAN :
          /\ trap => loopEndSample = 0
          /\ IF trap
             THEN Trap
             ELSE LET newStart == readPosition
                      newEnd == loopStartSample + r
                  IN  IF IsForwarded(newStart, newEnd)
                      THEN ForwardBlock(start, n)
                      ELSE SplitBlock(start, n, newStart, newEnd)

GetNextAudioBlock(start, n) ==
    /\ ~crashed
    /\ readPosition <= MaxPos
    /\ n <= MaxBlock => readPosition + n <= MaxPos
    /\ lastCall' = [op |-> "getNextAudioBlock", startSample |-> start,
                    numSamples |-> n]
    /\ pre' = Snapshot
    /\ CASE BlockPath(n, isLoopingBetweenTimes) = "loop" -> LoopedBlock(start, n)
         [] BlockPath(n, isLoopingBetweenTimes) = "direct" ->
                lockTaken' = FALSE /\ ForwardBlock(start, n)
         [] OTHER -> NoBlock
    /\ UNCHANGED <<isLoopingBetweenTimes, loopStartTime, loopEndTime,
                   currentSampleRate, loopStartSample, loopEndSample,
                   tempBufferSize, prepared, loopPosLock, thread>>

\* ------------------------------------------------------------ specification
Next ==
    \/ \E n \in ExpectedSizes, rate \in Rates : PrepareToPlay(n, rate)
    \/ \E startTime, endTime \in Times : SetLoopTimes(startTime, endTime)
    \/ \E shouldLoop \in BOOLEAN : SetLoopBetweenTimes(shouldLoop)
    \/ \E start \in Offsets, n \in NumSamplesSet : GetNextAudioBlock(start, n)
    \/ \E newPosition \in Positions : SetNextReadPosition(newPosition)

Spec == Init /\ [][Next]_vars

\* ------------------------------------------------- the two threads, by line
\* The same functions run by two threads at once, one source line (or one
\* run of lines that touch no shared member) per step: thread[t].pc is the
\* line thread t stands at.  The control thread calls setLoopTimes,
\* setLoopBetweenTimes and setNextReadPosition, the audio thread
\* getNextAudioBlock and setNextReadPosition.  prepareToPlay has run before
\* the threads start.
\* The block sizes, the loop times (half seconds) and the positions the
\* threads call with.
ThreadBlocks == {0, 1, 2}
ThreadTimes == {0, 1, 2}
ThreadPositions == {0, 2}

\* What the steps of the threads leave alone.
ThreadsFrame ==
    UNCHANGED <<currentSampleRate, tempBufferSize, prepared, lockTaken,
                lastCall, pre, innerCalls, out>>

ThreadsInit ==
    /\ isLoopingBetweenTimes = FALSE
    /\ loopStartTime = Indeterminate
    /\ loopEndTime = Indeterminate
    /\ currentSampleRate \in Rates
    /\ prepared = TRUE
    /\ lockTaken = FALSE
    /\ loopPosLock = "none"
    /\ thread = [t \in Threads |-> Idle]
    /\ loopStartSample = 0
    /\ loopEndSample = 0
    /\ tempBufferSize = InitialTempSamples
    /\ readPosition = 0
    /\ crashed = FALSE
    /\ lastCall = [op |-> "prepareToPlay"]
    /\ pre = [readPosition |-> 0]
    /\ innerCalls = <<>>
    /\ out = <<>>

\* Thread t goes on to line pc, its locals changed as in locals.
Goto(t, pc, locals) ==
    thread' = [thread EXCEPT ![t] = [f \in DOMAIN Idle |->
                  IF f = "pc" THEN pc
                  ELSE IF f \in DOMAIN locals THEN locals[f] ELSE thread[t][f]]]

\* Thread t returns from its call.
Return(t) == thread' = [thread EXCEPT ![t] = Idle]

At(t, pc) == ~crashed /\ thread[t].pc = pc

\* Mutant of CanEnter: the lock keeps nobody out.
CanEnterAlways(t) == TRUE

\* const ScopedLock sl (loopPosLock) lets thread t in: nobody is inside.
CanEnter(t) == loopPosLock = "none"

\* Mutant of Unlocked: leaving the scope does not release the lock.
StillLocked(t) == t

\* loopPosLock after thread t left the scope of its ScopedLock.
Unlocked(t) == "none"

\* The lines at which a call enters loopPosLock, and the line after each.
EnterLines == {"L54", "L102", "L143"}
AfterEnter(pc) ==
    CASE pc = "L54" -> "L56" [] pc = "L102" -> "L104" [] OTHER -> "L145"

\* const ScopedLock sl (loopPosLock): lines 54, 102 and 143.
Enter(t) ==
    /\ ~crashed
    /\ thread[t].pc \in EnterLines
    /\ CanEnter(t)
    /\ loopPosLock' = t
    /\ Goto(t, AfterEnter(thread[t].pc), <<>>)
    /\ UNCHANGED <<isLoopingBetweenTimes, loopStartTime, loopEndTime,
                   loopStartSample, loopEndSample, readPosition, crashed>>
    /\ ThreadsFrame

\* ---- setLoopTimes
CallSetLoopTimes(t, startTime, endTime) ==
    /\ At(t, "idle")
    /\ Goto(t, "L54", [op |-> "setLoopTimes", startTime |-> startTime,
                       endTime |-> endTime])
    /\ UNCHANGED <<isLoopingBetweenTimes, loopStartTime, loopEndTime,
                   loopStartSample, loopEndSample, readPosition, crashed,
                   loopPosLock>>
    /\ ThreadsFrame

\* Lines 56-57: the times.
StoreTimes(t) ==
    /\ At(t, "L56")
    /\ loopStartTime' = thread[t].startTime
    /\ loopEndTime' = thread[t].endTime
    /\ Goto(t, "L59", <<>>)
    /\ UNCHANGED <<isLoopingBetweenTimes, loopStartSample, loopEndSample,
                   readPosition, crashed, loopPosLock>>
    /\ ThreadsFrame

\* Line 59.
StoreStartSample(t) ==
    /\ At(t, "L59")
    /\ loopStartSample' = TimeToSample(thread[t].startTime, currentSampleRate)
    /\ Goto(t, "L60", <<>>)
    /\ UNCHANGED <<isLoopingBetweenTimes, loopStartTime, loopEndTime,
                   loopEndSample, readPosition, crashed, loopPosLock>>
    /\ ThreadsFrame

\* Line 60.
StoreEndSample(t) ==
    /\ At(t, "L60")
    /\ loopEndSample' = TimeToSample(thread[t].endTime, currentSampleRate)
    /\ Goto(t, "L61", <<>>)
    /\ UNCHANGED <<isLoopingBetweenTimes, loopStartTime, loopEndTime,
                   loopStartSample, readPosition, crashed, loopPosLock>>
    /\ ThreadsFrame

\* Line 61: the scope of the lock ends.
LeaveStore(t) ==
    /\ At(t, "L61")
    /\ loopPosLock' = Unlocked(t)
    /\ Goto(t, "L64", <<>>)
    /\ UNCHANGED <<isLoopingBetweenTimes, loopStartTime, loopEndTime,
                   loopStartSample, loopEndSample, readPosition, crashed>>
    /\ ThreadsFrame

\* Line 64: getNextReadPosition() is evaluated, then setNextReadPosition
\* is called with it.
ReadCursor(t) ==
    /\ At(t, "L64")
    /\ Goto(t, "L143", [newPosition |-> RevalidatedPosition(readPosition)])
    /\ UNCHANGED <<isLoopingBetweenTimes, loopStartTime, loopEndTime,
                   loopStartSample, loopEndSample, readPosition, crashed,
                   loopPosLock>>
    /\ ThreadsFrame

\* ---- setLoopBetweenTimes: line 69.
CallSetLoopBetweenTimes(t, shouldLoop) ==
    /\ At(t, "idle")
    /\ isLoopingBetweenTimes' = shouldLoop
    /\ UNCHANGED <<loopStartTime, loopEndTime, loopStartSample, loopEndSample,
                   readPosition, crashed, loopPosLock, thread>>
    /\ ThreadsFrame

\* ---- setNextReadPosition
CallSetNextReadPosition(t, newPosition) ==
    /\ At(t, "idle")
    /\ Goto(t, "L143", [op |-> "setNextReadPosition",
                        newPosition |-> newPosition])
    /\ UNCHANGED <<isLoopingBetweenTimes, loopStartTime, loopEndTime,
                   loopStartSample, loopEndSample, readPosition, crashed,
                   loopPosLock>>
    /\ ThreadsFrame

\* Lines 145-157: the position, wrapped or not, goes to the inner source.
Forward(t) ==
    /\ At(t, "L145")
    /\ readPosition' = ForwardedPosition(thread[t].newPosition,
                                         isLoopingBetweenTimes, readPosition,
                                         loopStartSample, loopEndSample)
    /\ Goto(t, "L158", [start |-> loopStartSample, end |-> loopEndSample])
    /\ UNCHANGED <<isLoopingBetweenTimes, loopStartTime, loopEndTime,
                   loopStartSample, loopEndSample, crashed, loopPosLock>>
    /\ ThreadsFrame

\* Line 158: the scope of the lock ends and the call returns.
LeaveForward(t) ==
    /\ At(t, "L158")
    /\ loopPosLock' = Unlocked(t)
    /\ Return(t)
    /\ UNCHANGED <<isLoopingBetweenTimes, loopStartTime, loopEndTime,
                   loopStartSample, loopEndSample, readPosition, crashed>>
    /\ ThreadsFrame

\* ---- getNextAudioBlock
\* The position thread u is about to hand to the inner source, if any.
PendingPosition(u) ==
    IF thread[u].pc \in {"L143", "L145"} THEN thread[u].newPosition ELSE 0

\* Lines 98-100: the branch is chosen, isLoopingBetweenTimes read without
\* the lock.
CallGetNextAudioBlock(t, n) ==
    /\ At(t, "idle")
    /\ readPosition + n <= MaxPos
    /\ \A u \in Threads : PendingPosition(u) + n <= MaxPos
    /\ LET path == BlockPath(n, isLoopingBetweenTimes)
       IN  CASE path = "loop" ->
                   Goto(t, "L102", [op |-> "getNextAudioBlock", numSamples |-> n])
             [] path = "direct" ->
                   Goto(t, "L135", [op |-> "getNextAudioBlock", numSamples |-> n])
             [] OTHER -> UNCHANGED thread
    /\ UNCHANGED <<isLoopingBetweenTimes, loopStartTime, loopEndTime,
                   loopStartSample, loopEndSample, readPosition, crashed,
                   loopPosLock>>
    /\ ThreadsFrame

\* Line 135: the block is read from the inner source, outside the lock.
DirectRead(t) ==
    /\ At(t, "L135")
    /\ readPosition' = InnerAdvance(readPosition, thread[t].numSamples)
    /\ Return(t)
    /\ UNCHANGED <<isLoopingBetweenTimes, loopStartTime, loopEndTime,
                   loopStartSample, loopEndSample, crashed, loopPosLock>>
    /\ ThreadsFrame

\* Lines 104-105: newStart and newEnd; a remainder by zero may trap.
ComputeEnd(t) ==
    /\ At(t, "L104")
    /\ \E r \in RemResults(readPosition + thread[t].numSamples, loopEndSample),
          trap \in BOOLEAN :
          /\ trap => loopEndSample = 0
          /\ crashed' = trap
          /\ IF trap
             THEN UNCHANGED thread
             ELSE Goto(t, "L107", [newStart |-> readPosition,
                                   newEnd |-> loopStartSample + r,
                                   start |-> loopStartSample,
                                   end |-> loopEndSample])
    /\ UNCHANGED <<isLoopingBetweenTimes, loopStartTime, loopEndTime,
                   loopStartSample, loopEndSample, readPosition, loopPosLock>>
    /\ ThreadsFrame

\* Lines 107-114: the branch, and numEndSamps and numStartSamps.
ChooseBranch(t) ==
    /\ At(t, "L107")
    /\ IF IsForwarded(thread[t].newStart, thread[t].newEnd)
       THEN Goto(t, "L109", <<>>)
       ELSE Goto(t, "L118",
                 [numEndSamps |-> NumEndSamps(thread[t].newStart, loopEndSample),
                  numStartSamps |-> NumStartSamps(thread[t].newEnd,
                                                  loopStartSample)])
    /\ UNCHANGED <<isLoopingBetweenTimes, loopStartTime, loopEndTime,
                   loopStartSample, loopEndSample, readPosition, crashed,
                   loopPosLock>>
    /\ ThreadsFrame

\* Line 109: the whole block is read from the inner source.
WholeRead(t) ==
    /\ At(t, "L109")
    /\ readPosition' = InnerAdvance(readPosition, thread[t].numSamples)
    /\ Goto(t, "L131", <<>>)
    /\ UNCHANGED <<isLoopingBetweenTimes, loopStartTime, loopEndTime,
                   loopStartSample, loopEndSample, crashed, loopPosLock>>
    /\ ThreadsFrame

\* Lines 116-118: the first read into tempBuffer.
EndRead(t) ==
    /\ At(t, "L118")
    /\ \E trap \in BOOLEAN :
          /\ trap => Overrun(tempBufferSize, 0, thread[t].numEndSamps)
          /\ crashed' = trap
          /\ IF trap
             THEN UNCHANGED <<thread, readPosition>>
             ELSE /\ readPosition' = InnerAdvance(readPosition,
                                                  thread[t].numEndSamps)
                  /\ Goto(t, "L122", <<>>)
    /\ UNCHANGED <<isLoopingBetweenTimes, loopStartTime, loopEndTime,
                   loopStartSample, loopEndSample, loopPosLock>>
    /\ ThreadsFrame

\* Line 122: the inner source is set to loopStartSample.
SeekToStart(t) ==
    /\ At(t, "L122")
    /\ readPosition' = loopStartSample
    /\ Goto(t, "L123", <<>>)
    /\ UNCHANGED <<isLoopingBetweenTimes, loopStartTime, loopEndTime,
                   loopStartSample, loopEndSample, crashed, loopPosLock>>
    /\ ThreadsFrame

\* Lines 123-130: the second read into tempBuffer and the copy out of it.
StartRead(t) ==
    /\ At(t, "L123")
    /\ \E trap \in BOOLEAN :
          /\ trap => \/ Overrun(tempBufferSize, thread[t].numEndSamps,
                                thread[t].numStartSamps)
                     \/ thread[t].numSamples > tempBufferSize
          /\ crashed' = trap
          /\ IF trap
             THEN UNCHANGED <<thread, readPosition>>
             ELSE /\ readPosition' = InnerAdvance(readPosition,
                                                  thread[t].numStartSamps)
                  /\ Goto(t, "L131", <<>>)
    /\ UNCHANGED <<isLoopingBetweenTimes, loopStartTime, loopEndTime,
                   loopStartSample, loopEndSample, loopPosLock>>
    /\ ThreadsFrame

\* Line 132: the scope of the lock ends and the call returns.
LeaveBlock(t) ==
    /\ At(t, "L131")
    /\ loopPosLock' = Unlocked(t)
    /\ Return(t)
    /\ UNCHANGED <<isLoopingBetweenTimes, loopStartTime, loopEndTime,
                   loopStartSample, loopEndSample, readPosition, crashed>>
    /\ ThreadsFrame

\* A step of the call thread t is in.
Run(t) ==
    \/ Enter(t)
    \/ StoreTimes(t)
    \/ StoreStartSample(t)
    \/ StoreEndSample(t)
    \/ LeaveStore(t)
    \/ ReadCursor(t)
    \/ Forward(t)
    \/ LeaveForward(t)
    \/ DirectRead(t)
    \/ ComputeEnd(t)
    \/ ChooseBranch(t)
    \/ WholeRead(t)
    \/ EndRead(t)
    \/ SeekToStart(t)
    \/ StartRead(t)
    \/ LeaveBlock(t)

ThreadsNext ==
    \/ \E startTime, endTime \in ThreadTimes :
          CallSetLoopTimes("control", startTime, endTime)
    \/ \E shouldLoop \in BOOLEAN : CallSetLoopBetweenTimes("control", shouldLoop)
    \/ \E t \in Threads, newPosition \in ThreadPositions :
          CallSetNextReadPosition(t, newPosition)
    \/ \E n \in ThreadBlocks : CallGetNextAudioBlock("audio", n)
    \/ \E t \in Threads : Run(t)

ThreadsSpec == ThreadsInit /\ [][ThreadsNext]_vars

\* Each thread goes on with the call it is in whenever it can: a thread
\* that waits for the lock is only sure to get it if the lock stays free.
FairThreadsSpec ==
    ThreadsSpec /\ WF_vars(Run("control")) /\ WF_vars(Run("audio"))

\* ------------------------------------------------------------------ typing
TypeOK ==
    /\ isLoopingBetweenTimes \in BOOLEAN
    /\ crashed \in BOOLEAN
    /\ prepared \in BOOLEAN
    /\ lockTaken \in BOOLEAN
    /\ tempBufferSize >= InitialTempSamples

\* ------------------------------------------------------------------ claims
\* The loop region is valid: endSample > startSample.
ValidRegion == loopEndSample > loopStartSample

\* The last operation was getNextAudioBlock / setNextReadPosition.
IsBlock == lastCall.op = "getNextAudioBlock"
IsSeek == lastCall.op = "setNextReadPosition"

\* The inner cursor lay in [loopStartSample, loopEndSample) before it.
WasInRegion ==
    pre.readPosition >= loopStartSample /\ pre.readPosition < loopEndSample

\* q may follow p in the delivered stream: the next sample, or the jump of
\* the loop seam from endSample - 1 to startSample.
Follows(p, q, start, end) == q = p + 1 \/ (p = end - 1 /\ q = start)

\* The three inner calls of a block split at the loop end, c the cursor before.
SplitCalls(c) ==
    <<ReadCall("temp", 0, loopEndSample - c),
      SeekCall(loopStartSample),
      ReadCall("temp", loopEndSample - c,
               c + lastCall.numSamples - loopEndSample)>>

\* C1: with looping enabled, a valid region and a ramp as inner source, the
\* concatenated outputs of successive getNextAudioBlock calls never skip or
\* duplicate a sample: each delivered position is followed by the next one,
\* or by startSample after endSample - 1.  Stated of every block size the
\* caller may ask for, this fails.
C1_GaplessStream ==
    [][(lastCall'.op = "getNextAudioBlock" /\ isLoopingBetweenTimes'
            /\ prepared' /\ ValidRegion')
        => /\ \A i \in 1..(Len(out') - 1) :
                 Follows(out'[i], out'[i + 1], loopStartSample', loopEndSample')
           /\ (IsBlock /\ isLoopingBetweenTimes /\ out # <<>> /\ out' # <<>>)
                 => Follows(out[Len(out)], out'[1],
                            loopStartSample', loopEndSample')]_vars

\* C2: with looping enabled and the cursor c inside the region, a block of
\* n samples with c + n > endSample and n <= endSample - startSample delivers
\* positions c .. endSample - 1, then startSample .. , by two reads around a
\* seek to startSample, and leaves the cursor at
\* startSample + (c + n - endSample).
C2_SplitAtSeam ==
    LET c == pre.readPosition
        n == lastCall.numSamples
    IN  (IsBlock /\ isLoopingBetweenTimes /\ ValidRegion /\ WasInRegion
            /\ c + n > loopEndSample
            /\ n <= loopEndSample - loopStartSample)
        => /\ out = Ramp(c, loopEndSample - c)
                      \o Ramp(loopStartSample, c + n - loopEndSample)
           /\ innerCalls = SplitCalls(c)
           /\ readPosition = loopStartSample + (c + n - loopEndSample)

C2_Witness ==
    /\ IsBlock /\ isLoopingBetweenTimes /\ ValidRegion /\ WasInRegion
    /\ pre.readPosition + lastCall.numSamples > loopEndSample
    /\ lastCall.numSamples <= loopEndSample - loopStartSample
    /\ loopStartSample > 0
    /\ Len(out) = 2
    /\ out[1] = loopEndSample - 1
    /\ out[2] = loopStartSample
    /\ readPosition = loopStartSample + 1

\* C3: with looping enabled and the cursor c inside the region, a block of
\* exactly n = endSample - c samples is taken as wrapping: it delivers
\* positions c .. endSample - 1 through the split branch and leaves the
\* cursor at startSample, not at endSample.
C3_BoundaryTouchingBlockWraps ==
    LET c == pre.readPosition
        n == lastCall.numSamples
    IN  (IsBlock /\ isLoopingBetweenTimes /\ ValidRegion /\ WasInRegion
            /\ n = loopEndSample - c)
        => /\ innerCalls = SplitCalls(c)
           /\ out = Ramp(c, n)
           /\ readPosition = loopStartSample

C3_Witness ==
    /\ IsBlock /\ isLoopingBetweenTimes /\ ValidRegion /\ WasInRegion
    /\ lastCall.numSamples = loopEndSample - pre.readPosition
    /\ lastCall.numSamples = loopEndSample - loopStartSample
    /\ innerCalls = SplitCalls(pre.readPosition)
    /\ readPosition = loopStartSample
    /\ out = Ramp(loopStartSample, loopEndSample - loopStartSample)

\* C4: setLoopTimes re-clamps the read cursor: with looping enabled and the
\* cursor inside the old region before the call, the cursor lies inside the
\* new region [startSample, endSample) after it.
C4_CursorReclampedIntoNewRegion ==
    [][(lastCall'.op = "setLoopTimes" /\ isLoopingBetweenTimes /\ prepared
            /\ ValidRegion
            /\ readPosition >= loopStartSample /\ readPosition < loopEndSample
            /\ ValidRegion')
        => (readPosition' >= loopStartSample'
               /\ readPosition' < loopEndSample')]_vars

\* C5: with looping enabled and the cursor strictly inside the region,
\* setNextReadPosition forwards a position inside [loopStartSample,
\* loopEndSample) for every newPosition, and never seeks to or past
\* loopEndSample.
C5_SeekWrapsIntoRegion ==
    (IsSeek /\ isLoopingBetweenTimes /\ prepared
        /\ pre.readPosition > loopStartSample
        /\ pre.readPosition < loopEndSample)
    => (readPosition >= loopStartSample /\ readPosition < loopEndSample)

\* C6: setNextReadPosition forwards newPosition unmodified whenever looping
\* is disabled or the cursor is not strictly inside the region, wherever
\* newPosition lies.
C6_SeekPassesThrough ==
    (IsSeek /\ (\/ ~isLoopingBetweenTimes
                \/ pre.readPosition <= loopStartSample
                \/ pre.readPosition >= loopEndSample))
    => /\ readPosition = lastCall.newPosition
       /\ innerCalls = <<SeekCall(lastCall.newPosition)>>

C6_Witness ==
    /\ IsSeek /\ isLoopingBetweenTimes /\ ValidRegion
    /\ pre.readPosition = loopStartSample
    /\ lastCall.newPosition > loopEndSample
    /\ readPosition = lastCall.newPosition

\* C7 as stated: with looping disabled, getNextAudioBlock makes exactly one
\* call to the inner source, with the caller's buffer, offset and count, and
\* output and cursor are those of the inner source called directly.
C7_ExactlyOneInnerCall ==
    (IsBlock /\ ~isLoopingBetweenTimes)
    => /\ innerCalls = <<ReadCall("info", lastCall.startSample,
                                  lastCall.numSamples)>>
       /\ out = Ramp(pre.readPosition, lastCall.numSamples)
       /\ readPosition = InnerAdvance(pre.readPosition, lastCall.numSamples)

\* C7 as amended: with looping disabled, getNextAudioBlock with
\* numSamples > 0 makes exactly one call to the inner source, with the
\* caller's buffer, offset and count, no seek and no read into tempBuffer,
\* so output and cursor are those of the inner source called directly; with
\* numSamples <= 0 it makes no call and delivers nothing.
C7_PassThrough ==
    (IsBlock /\ ~isLoopingBetweenTimes)
    => IF lastCall.numSamples > 0
       THEN /\ innerCalls = <<ReadCall("info", lastCall.startSample,
                                       lastCall.numSamples)>>
            /\ out = Ramp(pre.readPosition, lastCall.numSamples)
            /\ readPosition = pre.readPosition + lastCall.numSamples
       ELSE /\ innerCalls = <<>>
            /\ out = <<>>
            /\ readPosition = pre.readPosition

C7_Witness ==
    /\ IsBlock /\ ~isLoopingBetweenTimes /\ ValidRegion /\ WasInRegion
    /\ lastCall.startSample = 1
    /\ pre.readPosition + lastCall.numSamples > loopEndSample
    /\ innerCalls = <<ReadCall("info", 1, lastCall.numSamples)>>
    /\ readPosition > loopEndSample

\* The sample bounds are the stored times of a region multiplied by the
\* sample rate prepareToPlay set.
BoundsFollowTimes ==
    /\ prepared
    /\ loopStartTime # Indeterminate
    /\ loopEndTime > loopStartTime
    /\ loopStartSample = TimeToSample(loopStartTime, currentSampleRate)
    /\ loopEndSample = TimeToSample(loopEndTime, currentSampleRate)

\* C8: the sample bounds stay the stored times multiplied by the current
\* sample rate over every prepareToPlay and every setLoopTimes of a valid
\* region: also when prepareToPlay brings another rate after the region was
\* set.
C8_BoundsFollowTimesAndRate ==
    [][(BoundsFollowTimes /\ lastCall'.op \in {"prepareToPlay", "setLoopTimes"}
            /\ loopEndTime' > loopStartTime')
        => BoundsFollowTimes']_vars

\* C9: whenever getNextAudioBlock runs its looping branch, or
\* setNextReadPosition its wrap branch, loopEndSample > 0 and
\* loopEndSample > loopStartSample.
C9_NoDegenerateRegionObserved ==
    (\/ IsBlock /\ isLoopingBetweenTimes /\ lastCall.numSamples > 0
     \/ IsSeek /\ isLoopingBetweenTimes
            /\ pre.readPosition > loopStartSample
            /\ pre.readPosition < loopEndSample)
    => (loopEndSample > 0 /\ loopEndSample > loopStartSample)

\* C10: setLoopTimes called a second time in a row with the same times
\* leaves every member and the inner cursor as the first call left them.
C10_SetLoopTimesIdempotent ==
    [][(lastCall.op = "setLoopTimes" /\ lastCall'.op = "setLoopTimes"
            /\ lastCall'.again)
        => prog' = prog]_vars

C10_Witness ==
    /\ lastCall.op = "setLoopTimes" /\ lastCall.again
    /\ isLoopingBetweenTimes /\ prepared /\ ValidRegion
    /\ readPosition > loopStartSample /\ readPosition < loopEndSample

\* The read calls among calls ask for no negative number of samples.
NonNegativeReads(calls) ==
    \A i \in 1..Len(calls) :
       calls[i].op = "getNextAudioBlock" => calls[i].numSamples >= 0

\* The number of samples the read calls among calls ask for, in total.
RECURSIVE SamplesRead(_)
SamplesRead(calls) ==
    IF calls = <<>>
    THEN 0
    ELSE (IF Head(calls).op = "getNextAudioBlock"
          THEN Head(calls).numSamples ELSE 0) + SamplesRead(Tail(calls))

\* C12: the first getNextAudioBlock after looping was switched on, with a
\* valid region and wherever the inner cursor stands (before the region, in
\* it, at loopEndSample or past it), issues only inner reads of non-negative
\* sample counts that sum to numSamples and delivers numSamples samples the
\* inner source produced.  Stated for blocks no longer than the loop.
C12_FirstBlockAfterToggle ==
    [][(lastCall.op = "setLoopBetweenTimes" /\ lastCall.shouldLoop
            /\ prepared /\ ValidRegion
            /\ lastCall'.op = "getNextAudioBlock"
            /\ lastCall'.numSamples > 0
            /\ lastCall'.numSamples <= loopEndSample - loopStartSample
            /\ ~crashed')
        => /\ NonNegativeReads(innerCalls')
           /\ SamplesRead(innerCalls') = lastCall'.numSamples
           /\ Len(out') = lastCall'.numSamples
           /\ \A i \in 1..Len(out') : out'[i] \notin Garbage]_vars

\* p is a position of the loop region [loopStartSample, loopEndSample).
InRegion(p) == p >= loopStartSample /\ p < loopEndSample

\* C13: with looping enabled, a valid region and the inner cursor in
\* [startSample, endSample), every sample getNextAudioBlock delivers is a
\* position of the region and the cursor it leaves lies in the region
\* again, whatever the block size.
C13_PlaybackConfined ==
    (IsBlock /\ isLoopingBetweenTimes /\ prepared /\ ValidRegion
        /\ WasInRegion /\ ~crashed)
    => /\ \A i \in 1..Len(out) : InRegion(out[i])
       /\ InRegion(readPosition)

\* C14: tempBuffer holds 512 samples at first; prepareToPlay (b, rate)
\* leaves it holding the larger of what it held and b, and no other
\* operation changes its size: it never shrinks.
C14_ScratchNeverShrinks ==
    /\ tempBufferSize = InitialTempSamples
    /\ [][IF lastCall'.op = "prepareToPlay"
          THEN /\ tempBufferSize' >= tempBufferSize
               /\ tempBufferSize' >= lastCall'.samplesPerBlockExpected
               /\ tempBufferSize' \in {tempBufferSize,
                                       lastCall'.samplesPerBlockExpected}
          ELSE tempBufferSize' = tempBufferSize]_vars

C14_Witness ==
    /\ lastCall.op = "prepareToPlay"
    /\ lastCall.samplesPerBlockExpected < InitialTempSamples
    /\ tempBufferSize > InitialTempSamples

\* C15: getNextAudioBlock with numSamples <= 0 does nothing, looping or
\* not: it makes no call to the inner source, does not enter the lock,
\* delivers nothing, and leaves the inner cursor, the loop region, the
\* looping flag and tempBuffer as they were.
C15_EmptyBlockIsNoOp ==
    [][(lastCall'.op = "getNextAudioBlock" /\ lastCall'.numSamples <= 0)
        => /\ prog' = prog
           /\ innerCalls' = <<>>
           /\ out' = <<>>
           /\ ~lockTaken']_vars

C15_Witness ==
    /\ IsBlock /\ lastCall.numSamples < 0
    /\ isLoopingBetweenTimes /\ ValidRegion /\ InRegion(readPosition)
    /\ innerCalls = <<>> /\ ~lockTaken

\* The last getNextAudioBlock took the else branch: two reads around a seek.
TookSplitPath == IsBlock /\ Len(innerCalls) = 3

\* C16: tempBuffer is as large as the largest block asked for so far:
\* whenever getNextAudioBlock takes the else branch (here: with a valid
\* region and the cursor inside it), neither the samples it
\* reads into tempBuffer (numEndSamps + numStartSamps) nor the samples it
\* copies out of it (info.numSamples) are more than tempBuffer holds, also
\* when the block is larger than every samplesPerBlockExpected given to
\* prepareToPlay.
C16_ScratchHoldsSplitBlock ==
    (TookSplitPath /\ prepared /\ ValidRegion /\ WasInRegion)
    => /\ SamplesRead(innerCalls) <= tempBufferSize
       /\ lastCall.numSamples <= tempBufferSize

\* The last getNextAudioBlock ran with looping enabled, a valid region and
\* the cursor inside it, and asked for more samples than the loop is long:
\* the block crosses loopEndSample.
LongerThanLoop ==
    /\ IsBlock /\ isLoopingBetweenTimes /\ prepared /\ ValidRegion
    /\ WasInRegion /\ ~crashed
    /\ lastCall.numSamples > loopEndSample - loopStartSample

\* The whole block went to the inner source in one read.
TookForwardPath ==
    innerCalls = <<ReadCall("info", lastCall.startSample, lastCall.numSamples)>>

\* C17 as stated: a block longer than the loop always takes the non-wrapping
\* branch: it is forwarded to the inner source unsplit and the cursor ends
\* beyond loopEndSample.
C17_LongBlockForwardedUnsplit ==
    LongerThanLoop
    => /\ TookForwardPath
       /\ readPosition > loopEndSample

\* C17 as amended: a block longer than the loop is not guarded against and
\* its output is wrong, on either branch.  If newEnd > newStart it is
\* forwarded unsplit, delivers positions at and past loopEndSample and
\* leaves the cursor beyond loopEndSample; otherwise it takes the else
\* branch, whose two reads bring fewer samples than were asked for, so that
\* samples nothing wrote are delivered.
C17_LongBlockUnguarded ==
    LongerThanLoop
    => /\ \E i \in 1..Len(out) : ~InRegion(out[i])
       /\ \/ /\ TookForwardPath
             /\ readPosition = pre.readPosition + lastCall.numSamples
             /\ readPosition > loopEndSample
             /\ out = Ramp(pre.readPosition, lastCall.numSamples)
          \/ /\ TookSplitPath
             /\ SamplesRead(innerCalls) < lastCall.numSamples
             /\ \E i \in 1..Len(out) : out[i] \in Garbage

\* Both branches happen: the forwarding one ...
C17_Witness ==
    /\ LongerThanLoop /\ TookForwardPath
    /\ lastCall.numSamples <= MaxBlock
    /\ loopStartSample > 0

\* ... and the else branch, which C17 as stated leaves out.
C17_WitnessSplit ==
    /\ LongerThanLoop /\ TookSplitPath
    /\ lastCall.numSamples <= MaxBlock

\* ------------------------------------------------------ claims on the threads
\* The lines inside the scope of a ScopedLock on loopPosLock.
CriticalLines ==
    {"L56", "L59", "L60", "L61", "L104", "L107", "L109", "L118", "L122",
     "L123", "L131", "L145", "L158"}

\* The lines at which setLoopTimes is changing the times and the bounds.
StoreLines == {"L56", "L59", "L60", "L61"}

\* The lines of getNextAudioBlock and setNextReadPosition after the bounds
\* were first read, thread[t].start and thread[t].end being what was read.
UsingLines == {"L107", "L109", "L118", "L122", "L123", "L131", "L158"}

\* C11: every read and write of loopStartSample, loopEndSample and the
\* times happens inside loopPosLock, which a looping getNextAudioBlock holds
\* from its first line to its last; so under every interleaving the bounds
\* one getNextAudioBlock or setNextReadPosition works with are the two of one
\* region (no setLoopTimes is between its writes) and stay what they were
\* when it first read them, up to its last read of the inner source.
C11_BoundsUnderLock ==
    \A t \in Threads :
       /\ thread[t].pc \in CriticalLines => loopPosLock = t
       /\ thread[t].pc \in CriticalLines =>
             \A u \in Threads \ {t} : thread[u].pc \notin CriticalLines
       /\ thread[t].pc \in UsingLines =>
             /\ loopStartSample = thread[t].start
             /\ loopEndSample = thread[t].end
             /\ \A u \in Threads \ {t} : thread[u].pc \notin StoreLines

C11_Witness ==
    /\ thread["audio"].op = "getNextAudioBlock"
    /\ thread["audio"].pc = "L122"
    /\ loopPosLock = "audio"
    /\ thread["control"].op = "setLoopTimes"
    /\ thread["control"].pc = "L54"
    /\ TimeToSample(thread["control"].endTime, currentSampleRate) # loopEndSample

\* The audio thread is in a getNextAudioBlock / has returned from it.
AudioInBlock == thread["audio"].op = "getNextAudioBlock"
AudioReturned == thread["audio"].pc = "idle"

\* Some thread can take a step: one that is in no call can start one.
NoDeadlock ==
    crashed \/ \E t \in Threads : thread[t].pc = "idle" \/ ENABLED Run(t)

C19_WriteBackIsCurrentCursor ==
    \A t \in Threads :
       (thread[t].op = "setLoopTimes" /\ thread[t].pc = "L145")
       => thread[t].newPosition = readPosition

====
